---- MODULE Spec2Model ----
(***************************************************************************)
(* Model of app.py: a Flask form handler that fetches an article from a    *)
(* URL, asks a language model whether the text looks machine generated,    *)
(* and scores the article with a weighted five-factor quality metric.      *)
(*                                                                         *)
(* Text is a sequence of one-character strings.  Numbers that are floats   *)
(* in the program are exact rationals here, kept as integer numerators     *)
(* over a common positive denominator.  The libraries the program calls    *)
(* (sentiment lexicon, spell checker, tokenizer, language model, HTTP) are *)
(* modelled by what they hand back to the program.  Requests are handled   *)
(* one at a time; the two memoize caches are the only state that outlives  *)
(* a request.                                                              *)
(***************************************************************************)
EXTENDS Integers, Sequences, FiniteSets, TLC

\* ------------------------------------------------------------------ bounds
MaxRequests == 2
MaxKwLen == 1
MaxArticleLen == 3
MaxKeywords == 2

\* ------------------------------------------------------- text primitives
Whitespace == {" ", "\t", "\n"}

\* str.lower() on one character
LowerChar(c) ==
    IF c = "A" THEN "a" ELSE IF c = "B" THEN "b" ELSE c

\* str.lower()
Lower(s) == [i \in 1..Len(s) |-> LowerChar(s[i])]

\* the `in` operator of two strings: k occurs in s as a contiguous run
Contains(s, k) ==
    \E i \in 0..(Len(s) - Len(k)) : SubSeq(s, i + 1, i + Len(k)) = k

\* str.split(sep) with a one-character separator: always at least one piece
RECURSIVE SplitFrom(_, _, _)
SplitFrom(s, sep, cur) ==
    IF s = <<>> THEN <<cur>>
    ELSE IF Head(s) = sep THEN <<cur>> \o SplitFrom(Tail(s), sep, <<>>)
    ELSE SplitFrom(Tail(s), sep, Append(cur, Head(s)))

Split(s, sep) == SplitFrom(s, sep, <<>>)

\* str.strip(): drop leading and trailing whitespace
RECURSIVE LStrip(_)
LStrip(s) ==
    IF s # <<>> /\ Head(s) \in Whitespace THEN LStrip(Tail(s)) ELSE s

RECURSIVE RStrip(_)
RStrip(s) ==
    IF s # <<>> /\ s[Len(s)] \in Whitespace
    THEN RStrip(SubSeq(s, 1, Len(s) - 1)) ELSE s

Strip(s) == RStrip(LStrip(s))

\* "".join(list)
RECURSIVE Join(_)
Join(parts) ==
    IF parts = <<>> THEN <<>> ELSE Head(parts) \o Join(Tail(parts))

\* position of the first ">" that closes a "<" at the head of s with no
\* newline in between ('.' does not match a newline), or 0 when none does
RECURSIVE CloseAt(_, _)
CloseAt(s, i) ==
    IF i > Len(s) THEN 0
    ELSE IF s[i] = ">" THEN i
    ELSE IF s[i] = "\n" THEN 0
    ELSE CloseAt(s, i + 1)

\* re.sub(r'<.*?>|\n|\t', '', s): one left-to-right pass
RECURSIVE StripMarkup(_)
StripMarkup(s) ==
    IF s = <<>> THEN <<>>
    ELSE IF Head(s) \in {"\n", "\t"} THEN StripMarkup(Tail(s))
    ELSE IF Head(s) = "<" /\ CloseAt(s, 2) # 0
         THEN StripMarkup(SubSeq(s, CloseAt(s, 2) + 1, Len(s)))
    ELSE <<Head(s)>> \o StripMarkup(Tail(s))

\* all sequences over S of length at most n
RECURSIVE SeqsUpTo(_, _)
SeqsUpTo(S, n) ==
    IF n = 0 THEN {<<>>}
    ELSE LET shorter == SeqsUpTo(S, n - 1)
         IN  shorter \cup {Append(s, c) : s \in shorter, c \in S}

\* --------------------------------------------------------------- the web
\* The pages the fetcher can be pointed at: the text of the <p> elements of
\* each page, in document order.
URLs == {"u1", "u2", "u3"}

Paragraphs(u) ==
    IF u = "u1" THEN << <<"b", " ", "<", "i", ">">>, <<"A", "\n">> >>
    ELSE IF u = "u2" THEN << >>
    ELSE << <<" ", "\t">> >>

\* HTTP status codes a GET can come back with
Statuses == {200, 204, 404}

\* characters of the comma-separated keyword field of the form
KwAlphabet == {"a", ",", " "}
KwInputs == SeqsUpTo(KwAlphabet, MaxKwLen)

\* ------------------------------------------------- language resources
\* TextBlob(article).words: the whitespace-separated tokens of the text
RECURSIVE WordsFrom(_, _)
WordsFrom(s, cur) ==
    IF s = <<>> THEN (IF cur = <<>> THEN <<>> ELSE <<cur>>)
    ELSE IF Head(s) \in Whitespace
         THEN (IF cur = <<>> THEN <<>> ELSE <<cur>>) \o WordsFrom(Tail(s), <<>>)
    ELSE WordsFrom(Tail(s), Append(cur, Head(s)))

Words(text) == WordsFrom(text, <<>>)

\* the sentiment lexicon: polarity of a word in tenths, 0 when not listed
LexiconPolarity(w) ==
    IF w = <<"a">> THEN 10
    ELSE IF w = <<"b">> THEN -5
    ELSE IF w = <<"b", "b">> THEN -10
    ELSE 0

RECURSIVE SumPolarity(_)
SumPolarity(ws) ==
    IF ws = <<>> THEN 0
    ELSE LexiconPolarity(Lower(Head(ws))) + SumPolarity(Tail(ws))

RECURSIVE CountAssessed(_)
CountAssessed(ws) ==
    IF ws = <<>> THEN 0
    ELSE (IF LexiconPolarity(Lower(Head(ws))) # 0 THEN 1 ELSE 0)
         + CountAssessed(Tail(ws))

\* TextBlob(article).sentiment.polarity as a fraction <<num, den>> in
\* [-1, 1]: the mean polarity of the words the lexicon lists, 0.0 when it
\* lists none
SentimentPolarity(text) ==
    LET ws == Words(text)
        c  == CountAssessed(ws)
    IN  IF c = 0 THEN <<0, 1>> ELSE <<SumPolarity(ws), 10 * c>>

\* the word list of the spell checker
Dictionary == {<<"a">>, <<"b">>, <<"a", "b">>}

\* SpellChecker().unknown(words): the SET of lowercased words the
\* dictionary does not list
SpellUnknown(ws) == {Lower(ws[i]) : i \in 1..Len(ws)} \ Dictionary

\* ------------------------------------------------------------ arithmetic
\* round() of the fraction n/d, d # 0: to nearest, ties to the even integer
RoundHalfEven(n, d) ==
    LET nn == IF d < 0 THEN -n ELSE n
        dd == IF d < 0 THEN -d ELSE d
        f  == nn \div dd
        r  == nn - f * dd
    IN  IF 2 * r < dd THEN f
        ELSE IF 2 * r > dd THEN f + 1
        ELSE IF f % 2 = 0 THEN f ELSE f + 1

\* ---------------------------------------------- evaluate_article_quality
\* unique_words_count
UniqueWordsCount(ws) == Cardinality({ws[i] : i \in 1..Len(ws)})

\* spelling_error_count
SpellingErrorCount(ws) == Cardinality(SpellUnknown(ws))

\* the keyword count without lowercasing either side
RECURSIVE RelevantCountCaseSensitive(_, _)
RelevantCountCaseSensitive(article, kws) ==
    IF kws = <<>> THEN 0
    ELSE (IF Contains(article, Head(kws)) THEN 1 ELSE 0)
         + RelevantCountCaseSensitive(article, Tail(kws))

\* sum(keyword.lower() in article.lower() for keyword in list)
RECURSIVE RelevantCount(_, _)
RelevantCount(article, kws) ==
    IF kws = <<>> THEN 0
    ELSE (IF Contains(Lower(article), Lower(Head(kws))) THEN 1 ELSE 0)
         + RelevantCount(article, Tail(kws))

\* the effort term with the verdict read the wrong way round
EffortScoreInverted(is_written_by_chatgpt) ==
    IF is_written_by_chatgpt THEN 1 ELSE 0

\* effort_score
EffortScore(is_written_by_chatgpt) ==
    IF is_written_by_chatgpt THEN 0 ELSE 1

\* Python float division n / d: raises ZeroDivisionError when d is 0
PyDiv(n, d) ==
    IF d = 0 THEN [raised |-> TRUE, num |-> 0, den |-> 0]
    ELSE [raised |-> FALSE, num |-> n, den |-> d]

\* the vocabulary ratio upside down
VocabularyScoreInverted(ws) == PyDiv(Len(ws), UniqueWordsCount(ws))

\* vocabulary_score = unique_words_count / total_words_count
VocabularyScore(ws) == PyDiv(UniqueWordsCount(ws), Len(ws))

\* spelling_error_score = 1.0 - (spelling_error_count / total_words_count)
SpellingErrorScore(ws) ==
    LET q == PyDiv(SpellingErrorCount(ws), Len(ws))
    IN  IF q.raised THEN q
        ELSE [raised |-> FALSE, num |-> q.den - q.num, den |-> q.den]

\* relevance_score = matches / len(relevant_keywords_list)
RelevanceScore(article, kws) == PyDiv(RelevantCount(article, kws), Len(kws))

\* The common denominator of the five sub-scores: polarity denominator
\* times word count times keyword count.  quality_score is
\* QualityNum / (10 * ScoreDen).
ScoreDen(article, kws) ==
    SentimentPolarity(article)[2] * Len(Words(article)) * Len(kws)

\* the five weighted terms 0.4*readability, 0.1*vocabulary, 0.3*relevance,
\* 0.1*effort, 0.1*spelling, each as a numerator over 10 * ScoreDen
WeightedTerms(article, is_written_by_chatgpt, kws) ==
    LET ws  == Words(article)
        t   == Len(ws)
        n   == Len(kws)
        pol == SentimentPolarity(article)
        pn  == pol[1]
        pd  == pol[2]
    IN  << 4 * pn * t * n,
           1 * VocabularyScore(ws).num * pd * n,
           3 * RelevanceScore(article, kws).num * pd * t,
           1 * EffortScore(is_written_by_chatgpt) * pd * t * n,
           1 * SpellingErrorScore(ws).num * pd * n >>

\* the sum of the five weighted terms
SumTerms(w) == w[1] + w[2] + w[3] + w[4] + w[5]

\* quality_score as a numerator over 10 * ScoreDen
QualityNum(article, is_written_by_chatgpt, kws) ==
    SumTerms(WeightedTerms(article, is_written_by_chatgpt, kws))

\* the percentage without the shift from [-1, 1] to [0, 2]
ScorePercentageUnshifted(qnum, den) ==
    RoundHalfEven(5 * qnum, den)

\* score_percentage = round((quality_score + 1) * 50, 0)
ScorePercentage(qnum, den) ==
    RoundHalfEven(5 * (qnum + 10 * den), den)

\* a contribution that reports 0 instead of dividing by a zero quality
ContributionGuarded(term, qnum) ==
    IF qnum = 0 THEN [raised |-> FALSE, val |-> 0]
    ELSE [raised |-> FALSE, val |-> RoundHalfEven(10000 * term, qnum)]

\* round((term / quality_score) * 100, 2), in hundredths; float division
\* raises ZeroDivisionError on a zero divisor
Contribution(term, qnum) ==
    IF qnum = 0 THEN [raised |-> TRUE, val |-> 0]
    ELSE [raised |-> FALSE, val |-> RoundHalfEven(10000 * term, qnum)]

\* outcome of a call: a returned value, or an exception raised at a line
Returned(v) == [status |-> "ok", line |-> 0, value |-> v]
Raised(exc, ln) == [status |-> exc, line |-> ln, value |-> <<>>]
NoOutcome == Raised("none", 0)

\* evaluate_article_quality(article, is_written_by_chatgpt, keywords):
\* returns <<score_percentage, contributions>>, contributions in the order
\* Readability, Vocabulary Richness, Relevance, Generated by ChatGPT,
\* Spelling Error
EvaluateArticleQuality(article, is_written_by_chatgpt, kws) ==
    LET ws   == Words(article)
        w    == WeightedTerms(article, is_written_by_chatgpt, kws)
        qnum == SumTerms(w)
        den  == ScoreDen(article, kws)
        c    == [i \in 1..5 |-> Contribution(w[i], qnum)]
    IN  IF VocabularyScore(ws).raised THEN Raised("ZeroDivisionError", 100)
        ELSE IF SpellingErrorScore(ws).raised THEN Raised("ZeroDivisionError", 106)
        ELSE IF RelevanceScore(article, kws).raised THEN Raised("ZeroDivisionError", 110)
        ELSE IF \E i \in 1..5 : c[i].raised THEN Raised("ZeroDivisionError", 125)
        ELSE Returned(<<ScorePercentage(qnum, den), [i \in 1..5 |-> c[i].val]>>)

\* ------------------------------------------------------------ get_article
\* Python values the fetcher hands on: the constant False, or a str
PyFalse == [isstr |-> FALSE, text |-> <<>>]
PyStr(s) == [isstr |-> TRUE, text |-> s]

\* get_article returning an empty article instead of False on a failed GET
GetArticleEmptyOnFailure(status, paras) ==
    IF status = 200 THEN PyStr(StripMarkup(Join(paras)))
    ELSE PyStr(<<>>)

\* body of get_article for a response with the given status and <p> texts
GetArticle(status, paras) ==
    IF status = 200 THEN PyStr(StripMarkup(Join(paras)))
    ELSE PyFalse

\* -------------------------------------------- is_generated_by_language_model
\* cosine similarities the comparison can come out at, in tenths
Similarities == {-10, 0, 4, 5, 10}

\* tokenizer.encode(article): a byte-level vocabulary gives every character
\* of the text a token before merges, so only the empty text has none
NumTokens(text) == Len(text)

\* effort_score = (similarity + 1) / 2 as a fraction <<num, den>>
DetectorEffort(sim) == <<sim + 10, 20>>

\* effort_score > 0.7
DetectorVerdict(sim) ==
    10 * DetectorEffort(sim)[1] > 7 * DetectorEffort(sim)[2]

\* the call is_generated_by_language_model(article_text) for one outcome of
\* model loading and one similarity
IsGeneratedByLanguageModel(article_text, loaded, sim) ==
    IF ~loaded THEN Raised("OSError", 51)
    ELSE IF ~article_text.isstr THEN Raised("ValueError", 55)
    ELSE IF NumTokens(article_text.text) = 0 THEN Raised("RuntimeError", 59)
    ELSE [status |-> "ok", line |-> 0, value |-> DetectorVerdict(sim)]

\* ------------------------------------------------------------ memoization
\* a cache key that leaves the verdict out
MemoKeyWithoutVerdict(article, is_written_by_chatgpt, kws) ==
    <<article, FALSE, kws>>

\* cache key of a memoized evaluate_article_quality call: the arguments
MemoKey(article, is_written_by_chatgpt, kws) ==
    <<article, is_written_by_chatgpt, kws>>

\* keyword parsing that drops the empty pieces
ParseKeywordsNonEmpty(input) ==
    LET pieces == Split(input, ",")
    IN  SelectSeq([i \in 1..Len(pieces) |-> Strip(pieces[i])],
                  LAMBDA k : k # <<>>)

\* lines 139-141: the keyword field split on commas, each piece stripped
ParseKeywords(input) ==
    LET pieces == Split(input, ",")
    IN  [i \in 1..Len(pieces) |-> Strip(pieces[i])]

\* ------------------------------------------------------------------ state
VARIABLES
    pc,                      \* position of the request handler
    article_url,             \* request.form["article_url"]
    relevant_keywords_input, \* request.form["relevant_keywords"]
    relevant_keywords_list,
    article_text,
    is_written_by_chatgpt,
    outcome,                 \* outcome of the last evaluate_article_quality call
    response,                \* what the last request was answered with
    fetchCache,              \* memoized get_article results
    scoreCache,              \* memoized evaluate_article_quality results
    requests,                \* POST requests accepted so far
    status_code,             \* status of the GET this request made, 0 if none
    invoked,                 \* pipeline stages entered by this request
    detection,               \* outcome of this request's detector call
    printed,                 \* effort score the detector printed, <<>> if none
    history                  \* direct scorer calls made: arguments and outcome

vars == <<pc, article_url, relevant_keywords_input, relevant_keywords_list,
          article_text, is_written_by_chatgpt, outcome, response, fetchCache,
          scoreCache, requests, status_code, invoked, detection, printed,
          history>>

NoResponse == [template |-> "none", effort_score |-> 0, contributions |-> <<>>]
FormPage == [template |-> "index.html", effort_score |-> 0, contributions |-> <<>>]
ServerError == [template |-> "500", effort_score |-> 0, contributions |-> <<>>]
ResultPage(v) ==
    [template |-> "result.html", effort_score |-> v[1], contributions |-> v[2]]

Init ==
    /\ pc = "idle"
    /\ article_url = ""
    /\ relevant_keywords_input = <<>>
    /\ relevant_keywords_list = <<>>
    /\ article_text = PyStr(<<>>)
    /\ is_written_by_chatgpt = FALSE
    /\ outcome = NoOutcome
    /\ response = NoResponse
    /\ fetchCache = {}
    /\ scoreCache = {}
    /\ requests = 0
    /\ status_code = 0
    /\ invoked = {}
    /\ detection = NoOutcome
    /\ printed = <<>>
    /\ history = {}

\* memoized evaluate_article_quality: the outcome of the call and the cache
\* after it; an exception stores nothing
ScoreHits(cache, article, gen, kws) ==
    {e \in cache : e.key = MemoKey(article, gen, kws)}

MemoizedEvaluate(cache, article, gen, kws) ==
    LET hits == ScoreHits(cache, article, gen, kws)
        res  == EvaluateArticleQuality(article, gen, kws)
    IN  IF hits # {}
        THEN [outcome |-> Returned((CHOOSE e \in hits : TRUE).value),
              cache |-> cache, hit |-> TRUE]
        ELSE [outcome |-> res,
              cache |-> IF res.status = "ok"
                        THEN cache \cup {[key |-> MemoKey(article, gen, kws),
                                          value |-> res.value]}
                        ELSE cache,
              hit |-> FALSE]

\* ------------------------------------------------------- the handler index
\* GET /: the form
IndexGet ==
    /\ pc = "idle"
    /\ response' = FormPage
    /\ UNCHANGED <<pc, article_url, relevant_keywords_input,
                   relevant_keywords_list, article_text, is_written_by_chatgpt,
                   outcome, fetchCache, scoreCache, requests, status_code,
                   invoked, history,
                   detection, printed>>

\* POST /, lines 139-141: read the form and parse the keyword list
IndexPost ==
    /\ pc = "idle"
    /\ requests < MaxRequests
    /\ \E u \in URLs, k \in KwInputs :
        /\ article_url' = u
        /\ relevant_keywords_input' = k
        /\ relevant_keywords_list' = ParseKeywords(k)
    /\ requests' = requests + 1
    /\ pc' = "fetch"
    /\ article_text' = PyStr(<<>>)
    /\ is_written_by_chatgpt' = FALSE
    /\ outcome' = NoOutcome
    /\ response' = NoResponse
    /\ status_code' = 0
    /\ invoked' = {}
    /\ detection' = NoOutcome
    /\ printed' = <<>>
    /\ UNCHANGED <<fetchCache, scoreCache, history>>

\* line 144: get_article(article_url), memoized on the URL
Fetch ==
    /\ pc = "fetch"
    /\ LET hits == {e \in fetchCache : e.key = article_url}
       IN  IF hits # {}
           THEN /\ article_text' = (CHOOSE e \in hits : TRUE).value
                /\ UNCHANGED <<fetchCache, status_code>>
           ELSE \E status \in Statuses :
                /\ status_code' = status
                /\ article_text' = GetArticle(status, Paragraphs(article_url))
                /\ fetchCache' = fetchCache \cup
                       {[key |-> article_url, value |-> article_text']}
    /\ invoked' = invoked \cup {"fetcher"}
    /\ pc' = "detect"
    /\ UNCHANGED <<article_url, relevant_keywords_input, relevant_keywords_list,
                   is_written_by_chatgpt, outcome, response, scoreCache,
                   requests, history,
                   detection, printed>>

\* lines 147-149: run is_generated_by_language_model(article_text) to
\* completion; an exception escapes the handler and the request is answered
\* with the server's 500 page
Detect ==
    /\ pc = "detect"
    /\ \E loaded \in BOOLEAN, sim \in Similarities :
        LET r == IsGeneratedByLanguageModel(article_text, loaded, sim)
        IN  /\ detection' = r
            /\ IF r.status = "ok"
               THEN /\ is_written_by_chatgpt' = r.value
                    /\ printed' = DetectorEffort(sim)
                    /\ pc' = "score"
                    /\ UNCHANGED response
               ELSE /\ response' = ServerError
                    /\ printed' = <<>>
                    /\ pc' = "idle"
                    /\ UNCHANGED is_written_by_chatgpt
    /\ invoked' = invoked \cup {"detector"}
    /\ UNCHANGED <<article_url, relevant_keywords_input, relevant_keywords_list,
                   article_text, outcome, fetchCache, scoreCache, requests,
                   status_code, history>>

\* line 152: evaluate_article_quality(article_text, verdict, keywords),
\* memoized on its arguments
Score ==
    /\ pc = "score"
    /\ LET m == MemoizedEvaluate(scoreCache, article_text.text,
                                 is_written_by_chatgpt, relevant_keywords_list)
       IN  /\ outcome' = m.outcome
           /\ scoreCache' = m.cache
           /\ IF m.outcome.status = "ok"
              THEN pc' = "render" /\ UNCHANGED response
              ELSE pc' = "idle" /\ response' = ServerError
    /\ invoked' = invoked \cup {"scorer"}
    /\ UNCHANGED <<article_url, relevant_keywords_input, relevant_keywords_list,
                   article_text, is_written_by_chatgpt, fetchCache, requests,
                   status_code, history,
                   detection, printed>>

\* line 154: render the result page
Render ==
    /\ pc = "render"
    /\ response' = ResultPage(outcome.value)
    /\ pc' = "idle"
    /\ UNCHANGED <<article_url, relevant_keywords_input, relevant_keywords_list,
                   article_text, is_written_by_chatgpt, outcome, fetchCache,
                   scoreCache, requests, status_code, invoked, history,
                   detection, printed>>

\* CACHE_DEFAULT_TIMEOUT: an entry reaches its lifetime and is dropped
ExpireFetch ==
    /\ \E e \in fetchCache : fetchCache' = fetchCache \ {e}
    /\ UNCHANGED <<pc, article_url, relevant_keywords_input,
                   relevant_keywords_list, article_text, is_written_by_chatgpt,
                   outcome, response, scoreCache, requests, status_code,
                   invoked, history,
                   detection, printed>>

ExpireScore ==
    /\ \E e \in scoreCache : scoreCache' = scoreCache \ {e}
    /\ UNCHANGED <<pc, article_url, relevant_keywords_input,
                   relevant_keywords_list, article_text, is_written_by_chatgpt,
                   outcome, response, fetchCache, requests, status_code,
                   invoked, history,
                   detection, printed>>

Next ==
    \/ IndexGet
    \/ IndexPost
    \/ Fetch
    \/ Detect
    \/ Score
    \/ Render
    \/ ExpireFetch
    \/ ExpireScore

Spec == Init /\ [][Next]_vars

\* ------------------------------------------- the scorer called on its own
\* Articles and keyword lists evaluate_article_quality is applied to
ArtAlphabet == {"a", "B", " "}
Articles == SeqsUpTo(ArtAlphabet, MaxArticleLen)

Keywords == {<<>>, <<"A", "b">>}
KeywordLists == SeqsUpTo(Keywords, MaxKeywords)

InitScore ==
    /\ pc = "idle"
    /\ article_url = ""
    /\ relevant_keywords_input = <<>>
    /\ relevant_keywords_list \in KeywordLists
    /\ article_text \in {PyStr(a) : a \in Articles}
    /\ is_written_by_chatgpt = FALSE
    /\ outcome = NoOutcome
    /\ response = NoResponse
    /\ fetchCache = {}
    /\ scoreCache = {}
    /\ requests = 0
    /\ status_code = 0
    /\ invoked = {}
    /\ detection = NoOutcome
    /\ printed = <<>>
    /\ history = {}

\* one memoized call evaluate_article_quality(article, verdict, keywords),
\* recorded with its arguments and outcome
ScoreCall ==
    /\ \E gen \in BOOLEAN :
        LET kws == relevant_keywords_list
            m == MemoizedEvaluate(scoreCache, article_text.text, gen, kws)
        IN  /\ scoreCache' = m.cache
            /\ history' = history \cup
                   {[article |-> article_text.text, gen |-> gen, kws |-> kws,
                     outcome |-> m.outcome, hit |-> m.hit]}
    /\ UNCHANGED <<pc, article_url, relevant_keywords_input,
                   relevant_keywords_list, article_text, is_written_by_chatgpt,
                   outcome, response, fetchCache, requests, status_code,
                   invoked, detection, printed>>

NextScore ==
    \/ ScoreCall
    \/ ExpireScore

SpecScore == InitScore /\ [][NextScore]_vars

\* ================================================================ claims
HasWords(article) == Len(Words(article)) >= 1

\* the indices of the keywords whose lowercase form occurs in the
\* lowercased article
Matching(article, kws) ==
    {i \in 1..Len(kws) : Contains(Lower(article), Lower(kws[i]))}

\* the reorderings of a list
Reorderings(n) ==
    {f \in [1..n -> 1..n] : \A i, j \in 1..n : f[i] = f[j] => i = j}

Reorder(kws, f) == [i \in 1..Len(kws) |-> kws[f[i]]]

FetchFailed == "fetcher" \in invoked /\ ~article_text.isstr

\* C1: when the fetcher fails for a request, neither the detector nor the
\* scorer is invoked for that request, and the request is answered with an
\* error page that is neither a rendered score nor the server's crash page.
C1_FetchFailureAborts ==
    FetchFailed =>
        /\ "detector" \notin invoked
        /\ "scorer" \notin invoked
        /\ (pc = "idle" => response.template \notin {"result.html", "500"})

\* C2: a GET answered with a non-success status makes get_article yield the
\* failure value, never an article; the failure value differs from the empty
\* article a successful page without paragraphs yields.
C2_NonSuccessYieldsFailure ==
    /\ (status_code # 0 /\ status_code \notin 200..299) =>
          /\ ~article_text.isstr
          /\ article_text # PyStr(<<>>)
          /\ \A e \in fetchCache : e.key = article_url => ~e.value.isstr
    /\ (status_code = 200 /\ Paragraphs(article_url) = <<>>) =>
          /\ article_text.isstr
          /\ article_text.text = <<>>
          /\ article_text # PyFalse

C2_Witness ==
    /\ pc = "detect"
    /\ status_code = 404
    /\ article_text = PyFalse

\* C3: whenever the scorer returns for an article with at least one word and
\* a non-empty keyword list, under either verdict, the returned percentage
\* lies between 0 and 100.
C3_PercentageInRange ==
    \A h \in history :
        (HasWords(h.article) /\ Len(h.kws) >= 1 /\ h.outcome.status = "ok")
            => h.outcome.value[1] \in 0..100

C3_Witness ==
    \E h \in history :
        /\ h.outcome.status = "ok"
        /\ SpellingErrorCount(Words(h.article)) > 0
        /\ QualityNum(h.article, h.gen, h.kws) < 0
        /\ h.outcome.value[1] < 50

\* C4: with article and keywords fixed and both calls returning, the effort
\* term is 0 for verdict true and 1 for verdict false, and the quality and
\* the percentage for verdict false are at least those for verdict true.
C4_HumanScoresNoLower ==
    \A h1, h2 \in history :
        (/\ h1.article = h2.article /\ h1.kws = h2.kws
         /\ ~h1.gen /\ h2.gen
         /\ h1.outcome.status = "ok" /\ h2.outcome.status = "ok")
        => /\ EffortScore(h2.gen) = 0
           /\ EffortScore(h1.gen) = 1
           /\ h2.outcome.value[2][4] = 0
           /\ h1.outcome.value[2][4] # 0
           /\ QualityNum(h1.article, h1.gen, h1.kws)
                 >= QualityNum(h2.article, h2.gen, h2.kws)
           /\ h1.outcome.value[1] >= h2.outcome.value[1]

C4_Witness ==
    \E h1, h2 \in history :
        /\ h1.article = h2.article /\ h1.kws = h2.kws
        /\ ~h1.gen /\ h2.gen
        /\ h1.outcome.status = "ok" /\ h2.outcome.status = "ok"
        /\ h1.outcome.value[1] > h2.outcome.value[1]

\* C5 as stated: for every non-empty article text the vocabulary sub-score
\* is defined and lies in (0, 1].
C5_NonEmptyTextVocabulary ==
    \A h \in history :
        h.article # <<>> =>
            LET v == VocabularyScore(Words(h.article))
            IN  /\ ~v.raised
                /\ 0 < v.num /\ v.num <= v.den
                /\ ~(h.outcome.status = "ZeroDivisionError" /\ h.outcome.line = 100)

\* C5 amended: for every article text with at least one word the vocabulary
\* sub-score is defined and lies in (0, 1]; the scorer does not fail on it.
C5_WordedTextVocabulary ==
    \A h \in history :
        HasWords(h.article) =>
            LET v == VocabularyScore(Words(h.article))
            IN  /\ ~v.raised
                /\ 0 < v.num /\ v.num <= v.den
                /\ ~(h.outcome.status = "ZeroDivisionError" /\ h.outcome.line = 100)

C5_Witness ==
    \E h \in history :
        /\ Len(Words(h.article)) = 2
        /\ VocabularyScore(Words(h.article)).num = 1
        /\ h.outcome.status = "ok"

\* C6: for a non-empty keyword list, relevance is the number of entries
\* (duplicates counted) whose lowercase form occurs in the lowercased
\* article over the list length: 1 when all occur, 0 when none does, and
\* the same for every reordering of the list.
C6_RelevanceIsMatchFraction ==
    \A h \in history :
        Len(h.kws) >= 1 =>
            LET r == RelevanceScore(h.article, h.kws)
                m == Matching(h.article, h.kws)
            IN  /\ ~r.raised
                /\ r.num = Cardinality(m) /\ r.den = Len(h.kws)
                /\ (m = 1..Len(h.kws) => r.num = r.den)
                /\ (m = {} => r.num = 0)
                /\ \A f \in Reorderings(Len(h.kws)) :
                      RelevanceScore(h.article, Reorder(h.kws, f)) = r

C6_Witness ==
    \E h \in history :
        /\ h.kws = << <<"A", "b">>, <<>> >>
        /\ h.article = <<"B">>
        /\ Matching(h.article, h.kws) = {2}
        /\ h.outcome.status = "ok"

\* C7: when the quality is 0 for an article with at least one word and a
\* non-empty keyword list, the scorer fails with a division by zero at the
\* contribution percentages and returns nothing; nothing is cached.
C7_ZeroQualityFails ==
    \A h \in history :
        (/\ HasWords(h.article) /\ Len(h.kws) >= 1
         /\ QualityNum(h.article, h.gen, h.kws) = 0)
        => /\ h.outcome.status = "ZeroDivisionError"
           /\ h.outcome.line = 125
           /\ h.outcome.value = <<>>
           /\ ScoreHits(scoreCache, h.article, h.gen, h.kws) = {}

C7_Witness ==
    \E h \in history :
        /\ HasWords(h.article) /\ Len(h.kws) >= 1
        /\ QualityNum(h.article, h.gen, h.kws) = 0
        /\ h.outcome.status = "ZeroDivisionError"

\* C8: two calls with the same article, verdict and keywords have the same
\* outcome, computed or served from the cache, and an outcome served from
\* the cache was computed by a call with the same arguments.
C8_SameArgumentsSameOutcome ==
    /\ \A h1, h2 \in history :
          (h1.article = h2.article /\ h1.gen = h2.gen /\ h1.kws = h2.kws)
              => h1.outcome = h2.outcome
    /\ \A h \in history :
          h.hit => \E c \in history :
                      /\ ~c.hit
                      /\ c.article = h.article /\ c.gen = h.gen /\ c.kws = h.kws
                      /\ c.outcome = h.outcome

C8_Witness ==
    \E h, c \in history :
        /\ h.hit /\ ~c.hit
        /\ c.article = h.article /\ c.gen = h.gen /\ c.kws = h.kws
        /\ h.outcome.status = "ok"

\* C9: the detector on an empty article (no tokens) does not crash and
\* returns false; on any other article it returns true exactly when the
\* effort score it printed is above 0.7.
C9_DetectorOnEmptyArticle ==
    /\ (/\ "detector" \in invoked
        /\ article_text = PyStr(<<>>)
        /\ detection.status # "OSError")
       => /\ detection.status = "ok"
          /\ detection.value = FALSE
          /\ response # ServerError
    /\ (/\ "detector" \in invoked
        /\ article_text.isstr /\ article_text.text # <<>>
        /\ detection.status # "OSError")
       => /\ detection.status = "ok"
          /\ detection.value = (10 * printed[1] > 7 * printed[2])

\* C10: the keyword list the handler passes on always has at least one
\* element, so the scorer never divides by an empty list's length; a keyword
\* field that is empty or all whitespace becomes the list holding one empty
\* keyword, which every article matches: relevance 1.
C10_KeywordListNeverEmpty ==
    requests > 0 =>
        /\ Len(relevant_keywords_list) >= 1
        /\ ~(outcome.status = "ZeroDivisionError" /\ outcome.line = 110)
        /\ (\A i \in 1..Len(relevant_keywords_input) :
                relevant_keywords_input[i] \in Whitespace)
           => /\ relevant_keywords_list = << <<>> >>
              /\ (article_text.isstr =>
                    LET r == RelevanceScore(article_text.text,
                                            relevant_keywords_list)
                    IN  ~r.raised /\ r.num = r.den)

C10_Witness ==
    /\ relevant_keywords_input = <<" ">>
    /\ relevant_keywords_list = << <<>> >>
    /\ "scorer" \in invoked
    /\ outcome.status = "ok"
    /\ response.template = "result.html"
    /\ response.contributions[3] > 0

====
